---- MODULE Spec2Model ----
(***************************************************************************)
(* A model of the sqlalchemy-repositories data-access layer:               *)
(*   - the Connection Context's scoped session (src/database.py),          *)
(*   - the six repository capability mixins (src/repositories.py),         *)
(*   - the PostgreSQL Connection Builder (src/postgresql/database.py),     *)
(*   - the Connection Contexts' constructors, and the class statements     *)
(*     of the repositories module as Python executes them.                 *)
(*                                                                         *)
(* The ORM is an external collaborator.  A session is modelled by what the *)
(* repositories consume of it: it is open or closed, it collects pending   *)
(* inserts and attribute changes, commit flushes them to the table in one  *)
(* transaction (or rolls all of them back and raises), get / all / refresh *)
(* read the committed table.  The identity-map cache of a session is not   *)
(* modelled: every read goes to the table.                                 *)
(*                                                                         *)
(* Every repository operation is one action: the system is synchronous.    *)
(* The action leaves the finished call (arguments, outcome, the session    *)
(* events it issued) in `call`; Return hands control back to the caller.   *)
(***************************************************************************)
EXTENDS Integers, Sequences, FiniteSets, TLC

VARIABLES
    table,      \* the mapped table: the set of committed rows
    sessions,   \* every session the session-factory has produced, by id:
                \* its state, and who has to close it while it is open
    call,       \* the repository call that has just finished, or the idle call
    added,      \* history: per primary key, the object add_one last returned,
                \* for as long as its row has not changed since
    builder,    \* the PostgreSqlDbBuilder's attributes
    built,      \* the outcome of the builder's last build()
    repository, \* the repository's two references: its model, its database
    classes     \* the execution of the repositories module: the classes its
                \* class statements have defined, and a class composed of them

vars == <<table, sessions, call, added, builder, built, repository, classes>>

-----------------------------------------------------------------------------
(* Bounds of the model *)

MaxPk == 2          \* primary keys are 1..MaxPk
MaxSessions == 2    \* sessions the session-factory produces in one behaviour
MaxObjects == 2     \* longest collection handed to add_many
MaxBases == 3       \* most mixins a composed repository class lists as bases

-----------------------------------------------------------------------------
(* The mapped model: one table, a single primary-key column, two others *)

PkField == "id"
TableName == "items"
DefaultNote == "a"      \* storage-assigned default of the column "note"
Unset == "Unset"        \* an attribute the caller never assigned
PKs == 1..MaxPk
OtherPk == MaxPk + 1     \* a primary-key value an update mapping may carry
Names == {"a", "b"}

HasRow(tbl, pk) == \E row \in tbl : row.id = pk

\* The result of a primary-key lookup: <<row>>, or <<>> for Python's None.
RowOf(tbl, pk) ==
    IF HasRow(tbl, pk)
    THEN <<CHOOSE row \in tbl : row.id = pk>>
    ELSE <<>>

\* A whole-table scan.  The code asks for no order; storage order is
\* modelled as primary-key order.
RECURSIVE RowsFrom(_, _)
RowsFrom(tbl, pk) ==
    IF pk > OtherPk THEN <<>>
    ELSE RowOf(tbl, pk) \o RowsFrom(tbl, pk + 1)

\* The row storage keeps for an inserted object: defaults fill unset columns.
Stored(obj) == [obj EXCEPT !.note = IF @ = Unset THEN DefaultNote ELSE @]

-----------------------------------------------------------------------------
(* Outcomes: a result carries the context it leaves, the exception raised  *)
(* (if any) and the value returned.                                        *)

None == 0               \* the session argument left out
NoExc == [type |-> "none", msg |-> <<>>]
Exc(t, m) == [type |-> t, msg |-> m]
ValNone == [kind |-> "None", v |-> <<>>]
ValObj(o) == [kind |-> "obj", v |-> <<o>>]
ValList(l) == [kind |-> "list", v |-> l]
Result(c, exc, val) == [c |-> c, exc |-> exc, val |-> val]
Raised(r) == r.exc.type # "none"

EmptyDict == [f \in {} |-> 0]

IsOpen(c, s) == s \in 1..Len(c.sessions) /\ c.sessions[s].state = "open"

\* Every use of a session is recorded with whether the session was open then.
Log(c, act, s) ==
    [c EXCEPT !.events = Append(@, [act |-> act, s |-> s, live |-> IsOpen(c, s)])]

-----------------------------------------------------------------------------
(* The Connection Context's scoped session: get_database_session is a      *)
(* context manager; entering it makes a new session from the session       *)
(* factory and yields it, leaving it (normally, or with an exception       *)
(* propagating: raised = TRUE) runs the finally clause, which closes it.   *)

\* A registry in place of the factory call: the session handed out last is
\* handed out again.
get_database_session_enter_registry(c, owner) ==
    IF c.sessions = <<>>
    THEN LET c1 == [c EXCEPT !.sessions = Append(@, [state |-> "open", closer |-> owner])]
         IN  [c |-> Log(c1, "open", 1), s |-> 1]
    ELSE LET s == Len(c.sessions)
             c1 == [c EXCEPT !.sessions[s] = [state |-> "open", closer |-> owner]]
         IN  [c |-> Log(c1, "open", s), s |-> s]

get_database_session_enter(c, owner) ==
    LET s == Len(c.sessions) + 1
        c1 == [c EXCEPT !.sessions = Append(@, [state |-> "open", closer |-> owner])]
    IN  [c |-> Log(c1, "open", s), s |-> s]

\* Without try/finally the session is closed only when the body returns.
get_database_session_exit_no_finally(c, s, raised) ==
    IF raised THEN c
    ELSE [Log(c, "close", s) EXCEPT !.sessions[s] = [state |-> "closed", closer |-> "nobody"]]

get_database_session_exit(c, s, raised) ==
    [Log(c, "close", s) EXCEPT !.sessions[s] = [state |-> "closed", closer |-> "nobody"]]

-----------------------------------------------------------------------------
(* The session operations the repositories call.  c.fault names the one    *)
(* database round trip of this call that meets a connectivity failure.     *)

\* session.query(model): builds a query object, no round trip.
Session_query(c, s) == Result(Log(c, "query", s), NoExc, ValNone)

\* Query.get(pk): the row with that primary key, or None.
Query_get(c, s, pk) ==
    IF c.fault = "query"
    THEN Result(Log(c, "get", s), Exc("OperationalError", <<>>), ValNone)
    ELSE Result(Log(c, "get", s), NoExc,
                IF HasRow(c.table, pk) THEN ValObj(RowOf(c.table, pk)[1]) ELSE ValNone)

\* Query.get(pk=pk): Query.get takes its argument as `ident`; the keyword pk
\* is rejected by the call itself, before any round trip.
Query_get_pk_keyword(c, s, pk) ==
    Result(c, Exc("TypeError", <<"get() got an unexpected keyword argument 'pk'">>), ValNone)

\* Query.all(): every row.
Query_all(c, s) ==
    IF c.fault = "query"
    THEN Result(Log(c, "all", s), Exc("OperationalError", <<>>), ValNone)
    ELSE Result(Log(c, "all", s), NoExc, ValList(RowsFrom(c.table, 1)))

\* session.add(obj) / session.add_all(objects): pending until the flush.
Session_add(c, s, obj) ==
    Result([Log(c, "add", s) EXCEPT !.pending = Append(@, obj)], NoExc, ValNone)

Session_add_all(c, s, objects) ==
    Result([Log(c, "add_all", s) EXCEPT !.pending = @ \o objects], NoExc, ValNone)

\* setattr(item, field, value) on a loaded instance: the change is pending.
Instance_setattr(c, pk, item) ==
    [c EXCEPT !.dirty = <<[pk |-> pk, row |-> item]>>]

\* session.commit(): flushes the pending changes in one transaction.  A
\* primary key inserted twice, or a connectivity failure, rolls the whole
\* transaction back and raises.
Session_commit(c, s) ==
    LET c1 == Log(c, "commit", s)
        rolled == [c1 EXCEPT !.pending = <<>>, !.dirty = <<>>]
        n == Len(c.pending)
        clash == \/ \E i \in 1..n : HasRow(c.table, c.pending[i].id)
                 \/ \E i, j \in 1..n : i # j /\ c.pending[i].id = c.pending[j].id
        updated == {IF \E k \in 1..Len(c.dirty) : c.dirty[k].pk = row.id
                    THEN c.dirty[CHOOSE k \in 1..Len(c.dirty) : c.dirty[k].pk = row.id].row
                    ELSE row : row \in c.table}
        inserted == {Stored(c.pending[i]) : i \in 1..n}
    IN  IF c.fault = "commit"
        THEN Result(rolled, Exc("OperationalError", <<>>), ValNone)
        ELSE IF clash
        THEN Result(rolled, Exc("IntegrityError", <<>>), ValNone)
        ELSE Result([rolled EXCEPT !.table = updated \cup inserted], NoExc, ValNone)

\* session.refresh(obj): reloads obj's attributes from its row.
Session_refresh(c, s, pk) ==
    IF c.fault = "refresh"
    THEN Result(Log(c, "refresh", s), Exc("OperationalError", <<>>), ValNone)
    ELSE IF ~HasRow(c.table, pk)
    THEN Result(Log(c, "refresh", s), Exc("InvalidRequestError", <<>>), ValNone)
    ELSE Result(Log(c, "refresh", s), NoExc, ValObj(RowOf(c.table, pk)[1]))

-----------------------------------------------------------------------------
(* RetrieveRepository *)

\* The lookup's None handed back instead of the not-found error.
_retrieve_returns_none(c, pk, session) ==
    LET q == Session_query(Log(c, "_retrieve", session), session)
    IN  Query_get(q.c, session, pk)

_retrieve(c, pk, session) ==
    LET q == Session_query(Log(c, "_retrieve", session), session)
        g == Query_get(q.c, session, pk)
    IN  IF Raised(g) THEN g
        ELSE IF g.val.kind = "None"
        THEN Result(g.c,
                    Exc("SqlAlchemyRepositoryQueryingException",
                        <<"No object with primary key ", ToString(pk),
                          ", exists on table ", TableName>>),
                    ValNone)
        ELSE g

retrieve(c, pk, session) ==
    IF session = None
    THEN LET e == get_database_session_enter(c, "repository")
             r == _retrieve(e.c, pk, e.s)
         IN  [r EXCEPT !.c = get_database_session_exit(r.c, e.s, Raised(r))]
    ELSE _retrieve(c, pk, session)

-----------------------------------------------------------------------------
(* ListRepository: the scoped branch queries inline; the other branch      *)
(* calls self._list_all, which no class of the repository defines.         *)

list_all(c, session) ==
    IF session = None
    THEN LET e == get_database_session_enter(c, "repository")
             q == Session_query(Log(e.c, "list_all", e.s), e.s)
             r == Query_all(q.c, e.s)
         IN  [r EXCEPT !.c = get_database_session_exit(r.c, e.s, Raised(r))]
    ELSE Result(c, Exc("AttributeError", <<"object has no attribute '_list_all'">>), ValNone)

-----------------------------------------------------------------------------
(* AddOneRepository *)

\* The object handed back as it was given: no refresh after the commit.
_add_one_no_refresh(c, obj, session) ==
    LET a == Session_add(Log(c, "_add_one", session), session, obj)
        m == Session_commit(a.c, session)
    IN  IF Raised(m) THEN m
        ELSE Result(m.c, NoExc, ValObj(obj))

\* The refresh issued before the commit.
_add_one_refresh_first(c, obj, session) ==
    LET a == Session_add(Log(c, "_add_one", session), session, obj)
        f == Session_refresh(a.c, session, obj.id)
    IN  IF Raised(f) THEN f
        ELSE LET m == Session_commit(f.c, session)
             IN  IF Raised(m) THEN m ELSE Result(m.c, NoExc, f.val)

_add_one(c, obj, session) ==
    LET a == Session_add(Log(c, "_add_one", session), session, obj)
        m == Session_commit(a.c, session)
    IN  IF Raised(m) THEN m
        ELSE Session_refresh(m.c, session, obj.id)

\* The slip of delete_one, made in add_one: no return inside the scope.
add_one_falls_through(c, obj, session) ==
    IF session = None
    THEN LET e == get_database_session_enter(c, "repository")
             r == _add_one(e.c, obj, e.s)
             x == get_database_session_exit(r.c, e.s, Raised(r))
         IN  IF Raised(r) THEN [r EXCEPT !.c = x]
             ELSE _add_one(x, obj, e.s)
    ELSE _add_one(c, obj, session)

add_one(c, obj, session) ==
    IF session = None
    THEN LET e == get_database_session_enter(c, "repository")
             r == _add_one(e.c, obj, e.s)
         IN  [r EXCEPT !.c = get_database_session_exit(r.c, e.s, Raised(r))]
    ELSE _add_one(c, obj, session)

-----------------------------------------------------------------------------
(* AddManyRepository *)

\* for obj in objects: session.refresh(obj)
RECURSIVE refresh_each(_, _, _)
refresh_each(c, session, objects) ==
    IF objects = <<>>
    THEN Result(c, NoExc, ValList(<<>>))
    ELSE LET r == Session_refresh(c, session, Head(objects).id)
         IN  IF Raised(r) THEN r
             ELSE LET rest == refresh_each(r.c, session, Tail(objects))
                  IN  IF Raised(rest) THEN rest
                      ELSE Result(rest.c, NoExc, ValList(r.val.v \o rest.val.v))

\* One transaction per object: each object added and committed on its own.
RECURSIVE add_and_commit_each(_, _, _)
add_and_commit_each(c, session, objects) ==
    IF objects = <<>>
    THEN Result(c, NoExc, ValNone)
    ELSE LET a == Session_add(c, session, Head(objects))
             m == Session_commit(a.c, session)
         IN  IF Raised(m) THEN m
             ELSE add_and_commit_each(m.c, session, Tail(objects))

_add_many_commit_each(c, objects, with_return, session) ==
    LET m == add_and_commit_each(Log(c, "_add_many", session), session, objects)
    IN  IF Raised(m) THEN m
        ELSE IF with_return THEN refresh_each(m.c, session, objects)
        ELSE Result(m.c, NoExc, ValNone)

_add_many(c, objects, with_return, session) ==
    LET a == Session_add_all(Log(c, "_add_many", session), session, objects)
        m == Session_commit(a.c, session)
    IN  IF Raised(m) THEN m
        ELSE IF with_return THEN refresh_each(m.c, session, objects)
        ELSE Result(m.c, NoExc, ValNone)

add_many(c, objects, with_return, session) ==
    IF session = None
    THEN LET e == get_database_session_enter(c, "repository")
             r == _add_many(e.c, objects, with_return, e.s)
         IN  [r EXCEPT !.c = get_database_session_exit(r.c, e.s, Raised(r))]
    ELSE _add_many(c, objects, with_return, session)

-----------------------------------------------------------------------------
(* DeleteOneRepository.  _delete_one never gets past its first line: the   *)
(* lookup is called with the keyword pk, and what a lookup returns (a      *)
(* mapped instance or None) has no delete() method.  delete_one has no     *)
(* return in its scoped branch: after the scope is left normally it calls  *)
(* _delete_one again, with `session` bound to the session just closed.     *)

_delete_one(c, pk, session) ==
    LET q == Session_query(Log(c, "_delete_one", session), session)
        g == Query_get_pk_keyword(q.c, session, pk)
    IN  IF Raised(g) THEN g
        ELSE Result(g.c, Exc("AttributeError", <<"object has no attribute 'delete'">>), ValNone)

delete_one(c, pk, session) ==
    IF session = None
    THEN LET e == get_database_session_enter(c, "repository")
             r == _delete_one(e.c, pk, e.s)
             x == get_database_session_exit(r.c, e.s, Raised(r))
         IN  IF Raised(r) THEN [r EXCEPT !.c = x]
             ELSE _delete_one(x, pk, e.s)
    ELSE _delete_one(c, pk, session)

-----------------------------------------------------------------------------
(* UpdateRepository.  c.dict is the caller's update_values mapping, which  *)
(* _update_one changes in place.                                           *)

Pop(d, field) == [f \in (DOMAIN d) \ {field} |-> d[f]]

\* for field, value in update_values.items(): setattr(item, field, value)
SetAttrs(item, d) == [f \in DOMAIN item |-> IF f \in DOMAIN d THEN d[f] ELSE item[f]]

\* The primary-key entry left in update_values and assigned like the rest.
_update_one_keeps_pk(c, pk, session) ==
    LET q == Session_query(Log(c, "_update_one", session), session)
        g == Query_get(q.c, session, pk)
    IN  IF Raised(g) THEN g
        ELSE IF g.val.kind = "None"
        THEN Result(g.c, Exc("AttributeError", <<"'NoneType' object has no attribute">>), ValNone)
        ELSE LET item == SetAttrs(g.val.v[1], g.c.dict)
                 c2 == Instance_setattr(Log(g.c, "setattr", session), pk, item)
                 m == Session_commit(c2, session)
             IN  IF Raised(m) THEN m
                 ELSE Session_refresh(m.c, session, item.id)

\* An absent item tolerated: nothing assigned, nothing refreshed, None returned.
_update_one_skips_missing(c, pk, session) ==
    LET q == Session_query(Log(c, "_update_one", session), session)
        g == Query_get(q.c, session, pk)
        c1 == [g.c EXCEPT !.dict = IF PkField \in DOMAIN @ THEN Pop(@, PkField) ELSE @]
    IN  IF Raised(g) THEN g
        ELSE IF g.val.kind = "None"
        THEN Result(c1, NoExc, ValNone)
        ELSE LET item == SetAttrs(g.val.v[1], c1.dict)
                 c2 == IF DOMAIN c1.dict # {}
                       THEN Instance_setattr(Log(c1, "setattr", session), pk, item)
                       ELSE c1
                 m == Session_commit(c2, session)
             IN  IF Raised(m) THEN m
                 ELSE Session_refresh(m.c, session, item.id)

\* The primary-key field dropped from a copy: the caller's mapping untouched.
_update_one_on_copy(c, pk, session) ==
    LET q == Session_query(Log(c, "_update_one", session), session)
        g == Query_get(q.c, session, pk)
        values == IF PkField \in DOMAIN g.c.dict THEN Pop(g.c.dict, PkField) ELSE g.c.dict
    IN  IF Raised(g) THEN g
        ELSE IF g.val.kind = "None"
        THEN IF DOMAIN values # {}
             THEN Result(g.c, Exc("AttributeError", <<"'NoneType' object has no attribute">>), ValNone)
             ELSE LET m == Session_commit(g.c, session)
                  IN  IF Raised(m) THEN m
                      ELSE Result(Log(m.c, "refresh", session),
                                  Exc("UnmappedInstanceError", <<>>), ValNone)
        ELSE LET item == SetAttrs(g.val.v[1], values)
                 c2 == IF DOMAIN values # {}
                       THEN Instance_setattr(Log(g.c, "setattr", session), pk, item)
                       ELSE g.c
                 m == Session_commit(c2, session)
             IN  IF Raised(m) THEN m
                 ELSE Session_refresh(m.c, session, item.id)

_update_one(c, pk, session) ==
    LET q == Session_query(Log(c, "_update_one", session), session)
        g == Query_get(q.c, session, pk)
        c1 == [g.c EXCEPT !.dict = IF PkField \in DOMAIN @ THEN Pop(@, PkField) ELSE @]
    IN  IF Raised(g) THEN g
        ELSE IF g.val.kind = "None"
        THEN \* item is None: the first setattr raises; with nothing to set,
             \* commit succeeds and refresh(None) raises.
             IF DOMAIN c1.dict # {}
             THEN Result(c1, Exc("AttributeError", <<"'NoneType' object has no attribute">>), ValNone)
             ELSE LET m == Session_commit(c1, session)
                  IN  IF Raised(m) THEN m
                      ELSE Result(Log(m.c, "refresh", session),
                                  Exc("UnmappedInstanceError", <<>>), ValNone)
        ELSE LET item == SetAttrs(g.val.v[1], c1.dict)
                 c2 == IF DOMAIN c1.dict # {}
                       THEN Instance_setattr(Log(c1, "setattr", session), pk, item)
                       ELSE c1
                 m == Session_commit(c2, session)
             IN  IF Raised(m) THEN m
                 ELSE Session_refresh(m.c, session, item.id)

\* The session argument ignored: a scoped session is opened regardless.
update_one_always_scoped(c, pk, update_values, session) ==
    LET e == get_database_session_enter([c EXCEPT !.dict = update_values], "repository")
        r == _update_one(e.c, pk, e.s)
    IN  [r EXCEPT !.c = get_database_session_exit(r.c, e.s, Raised(r))]

update_one(c, pk, update_values, session) ==
    IF session = None
    THEN LET e == get_database_session_enter([c EXCEPT !.dict = update_values], "repository")
             r == _update_one(e.c, pk, e.s)
         IN  [r EXCEPT !.c = get_database_session_exit(r.c, e.s, Raised(r))]
    ELSE _update_one([c EXCEPT !.dict = update_values], pk, session)

-----------------------------------------------------------------------------
(* PostgreSqlDbBuilder and PostgreSqlDb.  A Python value is modelled by    *)
(* its type and its text, a sequence of pieces: a password's pieces are    *)
(* its characters.  An attribute never assigned has type "unset": the two  *)
(* required fields are class annotations without a value, so reading them  *)
(* raises AttributeError and hasattr is false.                             *)

DefaultPort == 5432
PyStr(pieces) == [t |-> "str", v |-> pieces]
PyInt(n) == [t |-> "int", v |-> <<ToString(n)>>]
PyNone == [t |-> "NoneType", v |-> <<"None">>]
NotSet == [t |-> "unset", v |-> <<>>]
hasattr(b, field) == b[field].t # "unset"

\* PostgreSqlDbBuilder(): the class-level defaults.
NewBuilder ==
    [host |-> PyStr(<<"localhost">>), username |-> PyStr(<<"postgres">>),
     schema |-> PyStr(<<"public">>), port |-> PyInt(DefaultPort),
     password |-> NotSet, database_name |-> NotSet]

\* urllib.parse.quote_plus on one character: reserved characters are
\* percent-encoded, a space becomes a plus sign.
quote_char(ch) ==
    CASE ch = "@" -> <<"%", "4", "0">>
      [] ch = "/" -> <<"%", "2", "F">>
      [] ch = ":" -> <<"%", "3", "A">>
      [] ch = "%" -> <<"%", "2", "5">>
      [] ch = "+" -> <<"%", "2", "B">>
      [] ch = " " -> <<"+">>
      [] OTHER -> <<ch>>

RECURSIVE quote_plus(_)
quote_plus(pieces) ==
    IF pieces = <<>> THEN <<>>
    ELSE quote_char(Head(pieces)) \o quote_plus(Tail(pieces))

\* The url expression of build(), evaluated left to right: the first
\* sub-expression that fails decides the exception.
build_url(b) ==
    IF ~hasattr(b, "password")
    THEN [exc |-> Exc("AttributeError", <<"_postgresql_password">>), url |-> <<>>]
    ELSE IF b.password.t # "str"                      \* quote_plus(5), quote_plus(None)
    THEN [exc |-> Exc("TypeError", <<"quote_from_bytes() expected bytes">>), url |-> <<>>]
    ELSE IF \E i \in 1..Len(b.username.v) : b.username.v[i] = "%"
    THEN [exc |-> Exc("ValueError", <<"unsupported format character">>), url |-> <<>>]
    ELSE IF b.host.t # "str"                          \* host.encode()
    THEN [exc |-> Exc("AttributeError", <<"encode">>), url |-> <<>>]
    ELSE IF ~hasattr(b, "database_name")
    THEN [exc |-> Exc("AttributeError", <<"_postgresql_database_name">>), url |-> <<>>]
    ELSE IF b.database_name.t # "str"                 \* database_name.encode()
    THEN [exc |-> Exc("AttributeError", <<"encode">>), url |-> <<>>]
    ELSE [exc |-> NoExc,
          url |-> <<"postgresql+psycopg2://">> \o b.username.v \o <<":">>
                  \o quote_plus(b.password.v) \o <<"@">> \o b.host.v \o <<":">>
                  \o b.port.v \o <<"/">> \o b.database_name.v]

\* SqlAlchemyDb.__init__: create_engine, sessionmaker and declarative_base
\* are called one after the other with nothing around them: what they raise
\* (engine names it, "ok" for nothing) leaves the constructor as it is.
SqlAlchemyDb(connection_url, schema, engine) ==
    IF engine # "ok"
    THEN [exc |-> Exc(engine, <<>>), db |-> <<>>]
    ELSE [exc |-> NoExc, db |-> <<[url |-> connection_url, schema |-> schema]>>]

\* PostgreSqlDb.__init__: whatever create_engine, sessionmaker or
\* declarative_base raise (engine names it, "ok" for nothing) is wrapped.
PostgreSqlDb(url, schema, engine) ==
    IF engine # "ok"
    THEN [exc |-> Exc("PostgreSqlDbBuildingException", <<engine>>), db |-> <<>>]
    ELSE [exc |-> NoExc, db |-> <<[url |-> url, schema |-> schema]>>]

\* The try block of build(): the url, then the PostgreSqlDb.
build_try(b, engine) ==
    LET u == build_url(b)
    IN  IF Raised(u) THEN [exc |-> u.exc, db |-> <<>>]
        ELSE IF b.schema.t = "NoneType"
        THEN PostgreSqlDb(u.url, <<"public">>, engine)
        ELSE PostgreSqlDb(u.url, b.schema.v, engine)

\* build() without its last except clause: only the first two handlers.
build_without_catch_all(b, engine) ==
    LET t == build_try(b, engine)
        unset_fields ==
            (IF ~hasattr(b, "password") THEN <<"_postgresql_password">> ELSE <<>>)
            \o (IF ~hasattr(b, "database_name") THEN <<"_postgresql_database_name">> ELSE <<>>)
    IN  IF ~Raised(t) THEN t
        ELSE IF t.exc.type = "AttributeError"
        THEN [exc |-> Exc("PostgreSqlDbBuildingException",
                          <<"The following fields were not set before building: ">>
                          \o unset_fields),
              db |-> <<>>]
        ELSE t

\* build(): the try block and its three except clauses.
build(b, engine) ==
    LET t == build_try(b, engine)
        unset_fields ==
            (IF ~hasattr(b, "password") THEN <<"_postgresql_password">> ELSE <<>>)
            \o (IF ~hasattr(b, "database_name") THEN <<"_postgresql_database_name">> ELSE <<>>)
    IN  IF ~Raised(t) THEN t
        ELSE IF t.exc.type = "PostgreSqlDbBuildingException" THEN t
        ELSE IF t.exc.type = "AttributeError"
        THEN [exc |-> Exc("PostgreSqlDbBuildingException",
                          <<"The following fields were not set before building: ">>
                          \o unset_fields),
              db |-> <<>>]
        ELSE [exc |-> Exc("PostgreSqlDbBuildingException", <<t.exc.type>>), db |-> <<>>]

-----------------------------------------------------------------------------
(* The state machine of the repositories *)

Fields == {"id", "name", "note"}
\* The objects handed to add_one and add_many, the collections handed to
\* add_many (the order of a collection has no effect: one order of each).
Objs == [id : PKs, name : Names, note : {Unset, "b"}]
ManyObjs == [id : PKs, name : {"a"}, note : {Unset}]
Collections ==
    {objects \in UNION {[1..n -> ManyObjs] : n \in 0..MaxObjects} :
        \A i \in 1..(Len(objects) - 1) : objects[i].id <= objects[i + 1].id}
UpdateValue(f) == IF f = PkField THEN OtherPk ELSE "b"
Dicts == {[f \in S |-> UpdateValue(f)] : S \in SUBSET Fields}

IdleCall ==
    [op |-> "idle", pk |-> 0, objects |-> <<>>, with_return |-> FALSE,
     update_values |-> EmptyDict, dict |-> EmptyDict, session |-> None,
     fault |-> "none", exc |-> NoExc, val |-> ValNone, events |-> <<>>]

\* The sessions a caller can hand to an operation: its own open ones.
CallerSessions == {s \in 1..Len(sessions) :
                     sessions[s].state = "open" /\ sessions[s].closer = "caller"}
SessionArgs == {None} \cup CallerSessions

\* A call starts when the caller is not inside another one; a scoped
\* call takes one more session from the session-factory.
Idle == call.op = "idle"
CanCall(session) == session = None => Len(sessions) < MaxSessions

Ctx(fault) ==
    [table |-> table, sessions |-> sessions, events |-> <<>>, fault |-> fault,
     pending |-> <<>>, dirty |-> <<>>, dict |-> EmptyDict]

\* The call ends: its effects on the table and the sessions stay, its
\* outcome goes to the caller.
Finish(args, r) ==
    /\ table' = r.c.table
    /\ sessions' = r.c.sessions
    /\ call' = [args EXCEPT !.exc = r.exc,
                            !.val = IF Raised(r) THEN ValNone ELSE r.val,
                            !.dict = r.c.dict,
                            !.events = r.c.events]
    /\ added' = [p \in PKs |->
                   IF args.op = "add_one" /\ ~Raised(r) /\ p = args.objects[1].id
                   THEN r.val.v
                   ELSE IF RowOf(r.c.table, p) = RowOf(table, p) THEN added[p]
                   ELSE <<>>]
    /\ UNCHANGED <<builder, built, repository, classes>>

Retrieve ==
    /\ Idle
    /\ \E pk \in PKs, session \in SessionArgs, fault \in {"none", "query"} :
           /\ CanCall(session)
           /\ Finish([IdleCall EXCEPT !.op = "retrieve", !.pk = pk, !.session = session,
                                      !.fault = fault],
                     retrieve(Ctx(fault), pk, session))

ListAll ==
    /\ Idle
    /\ \E session \in SessionArgs, fault \in {"none", "query"} :
           /\ CanCall(session)
           /\ Finish([IdleCall EXCEPT !.op = "list_all", !.session = session, !.fault = fault],
                     list_all(Ctx(fault), session))

AddOne ==
    /\ Idle
    /\ \E obj \in Objs, session \in SessionArgs, fault \in {"none", "commit", "refresh"} :
           /\ CanCall(session)
           /\ Finish([IdleCall EXCEPT !.op = "add_one", !.objects = <<obj>>,
                                      !.session = session, !.fault = fault],
                     add_one(Ctx(fault), obj, session))

AddMany ==
    /\ Idle
    /\ \E objects \in Collections, with_return \in BOOLEAN, session \in SessionArgs,
          fault \in {"none", "commit", "refresh"} :
           /\ fault = "refresh" => with_return
           /\ CanCall(session)
           /\ Finish([IdleCall EXCEPT !.op = "add_many", !.objects = objects,
                                      !.with_return = with_return,
                                      !.session = session, !.fault = fault],
                     add_many(Ctx(fault), objects, with_return, session))

UpdateOne ==
    /\ Idle
    /\ \E pk \in PKs, update_values \in Dicts, session \in SessionArgs,
          fault \in {"none", "query", "commit", "refresh"} :
           /\ CanCall(session)
           /\ Finish([IdleCall EXCEPT !.op = "update_one", !.pk = pk,
                                      !.update_values = update_values,
                                      !.session = session, !.fault = fault],
                     update_one(Ctx(fault), pk, update_values, session))

DeleteOne ==
    /\ Idle
    /\ \E pk \in PKs, session \in SessionArgs :
           /\ CanCall(session)
           /\ Finish([IdleCall EXCEPT !.op = "delete_one", !.pk = pk, !.session = session],
                     delete_one(Ctx("none"), pk, session))

\* The caller takes the outcome; the repository keeps nothing of the call.
Return ==
    /\ ~Idle
    /\ call' = IdleCall
    /\ UNCHANGED <<table, sessions, added, builder, built, repository, classes>>

\* The caller opens a scope of its own with get_database_session, to hand
\* the session to repository operations, and leaves the scope; it keeps
\* one scope open at a time.
CallerEntersScope ==
    /\ Idle
    /\ CallerSessions = {}
    /\ Len(sessions) < MaxSessions
    /\ sessions' = get_database_session_enter(Ctx("none"), "caller").c.sessions
    /\ UNCHANGED <<table, call, added, builder, built, repository, classes>>

CallerLeavesScope ==
    /\ Idle
    /\ \E s \in CallerSessions :
           /\ sessions' = get_database_session_exit(Ctx("none"), s, FALSE).sessions
           /\ UNCHANGED <<table, call, added, builder, built, repository, classes>>

-----------------------------------------------------------------------------
(* The state machine of the builder *)

NotBuilt == [status |-> "none", exc |-> NoExc, db |-> <<>>, engine |-> "ok"]
Hosts == {PyStr(<<"localhost">>), PyStr(<<"db.example">>), PyNone}
Usernames == {PyStr(<<"postgres">>), PyStr(<<"u", "%">>)}
Passwords == {PyStr(<<"p", "w">>), PyStr(<<"p", "@", "s", "/">>), PyStr(<<":", "%", "+">>),
              PyStr(<<"p", " ", "w">>), PyInt(5)}
Ports == {PyInt(DefaultPort), PyInt(1), PyStr(<<"abc">>)}
DatabaseNames == {PyStr(<<"app">>), PyInt(7)}
Schemas == {PyStr(<<"public">>), PyStr(<<"sales">>), PyNone}
EngineOutcomes == {"ok", "ArgumentError", "ModuleNotFoundError"}

CanSet == built.status = "none"

set_host ==
    \E postgresql_host \in Hosts :
        /\ CanSet
        /\ builder' = [builder EXCEPT !.host = postgresql_host]
        /\ UNCHANGED <<table, sessions, call, added, built, repository, classes>>

set_username ==
    \E postgresql_username \in Usernames :
        /\ CanSet
        /\ builder' = [builder EXCEPT !.username = postgresql_username]
        /\ UNCHANGED <<table, sessions, call, added, built, repository, classes>>

set_password ==
    \E postgresql_password \in Passwords :
        /\ CanSet
        /\ builder' = [builder EXCEPT !.password = postgresql_password]
        /\ UNCHANGED <<table, sessions, call, added, built, repository, classes>>

set_port ==
    \E postgresql_port \in Ports :
        /\ CanSet
        /\ builder' = [builder EXCEPT !.port = postgresql_port]
        /\ UNCHANGED <<table, sessions, call, added, built, repository, classes>>

set_database_name ==
    \E postgresql_database_name \in DatabaseNames :
        /\ CanSet
        /\ builder' = [builder EXCEPT !.database_name = postgresql_database_name]
        /\ UNCHANGED <<table, sessions, call, added, built, repository, classes>>

set_schema ==
    \E postgresql_database_schema \in Schemas :
        /\ CanSet
        /\ builder' = [builder EXCEPT !.schema = postgresql_database_schema]
        /\ UNCHANGED <<table, sessions, call, added, built, repository, classes>>

\* A build() that takes the password out of the builder as it reads it.
Build_consumes_password ==
    \E engine \in EngineOutcomes :
        /\ built.status = "none"
        /\ built' = [status |-> "done", exc |-> build(builder, engine).exc,
                     db |-> build(builder, engine).db, engine |-> engine]
        /\ builder' = [builder EXCEPT !.password = NotSet]
        /\ UNCHANGED <<table, sessions, call, added, repository, classes>>

\* build() runs on the builder as it is; its outcome stays in `built`
\* until the caller has taken it (BuildReturns).
Build ==
    \E engine \in EngineOutcomes :
        /\ built.status = "none"
        /\ built' = [status |-> "done", exc |-> build(builder, engine).exc,
                     db |-> build(builder, engine).db, engine |-> engine]
        /\ UNCHANGED <<table, sessions, call, added, builder, repository, classes>>

BuildReturns ==
    /\ built.status = "done"
    /\ built' = NotBuilt
    /\ UNCHANGED <<table, sessions, call, added, builder, repository, classes>>

\* The Connection Contexts constructed directly, without the builder.
ConnectionUrls == {<<"sqlite://">>, <<"postgresql+psycopg2://u:p@h:5432/app">>}

NewSqlAlchemyDb ==
    \E connection_url \in ConnectionUrls, engine \in EngineOutcomes :
        /\ built.status = "none"
        /\ built' = [status |-> "SqlAlchemyDb",
                     exc |-> SqlAlchemyDb(connection_url, <<"public">>, engine).exc,
                     db |-> SqlAlchemyDb(connection_url, <<"public">>, engine).db,
                     engine |-> engine]
        /\ UNCHANGED <<table, sessions, call, added, builder, repository, classes>>

NewPostgreSqlDb ==
    \E postgresql_url \in ConnectionUrls, engine \in EngineOutcomes :
        /\ built.status = "none"
        /\ built' = [status |-> "PostgreSqlDb",
                     exc |-> PostgreSqlDb(postgresql_url, <<"public">>, engine).exc,
                     db |-> PostgreSqlDb(postgresql_url, <<"public">>, engine).db,
                     engine |-> engine]
        /\ UNCHANGED <<table, sessions, call, added, builder, repository, classes>>

NewDbReturns ==
    /\ built.status \in {"SqlAlchemyDb", "PostgreSqlDb"}
    /\ built' = NotBuilt
    /\ UNCHANGED <<table, sessions, call, added, builder, repository, classes>>

-----------------------------------------------------------------------------
(* The repositories module as Python executes it: seven class statements,  *)
(* each creating a class from its bases.  Creating a class computes its    *)
(* method resolution order by C3 linearization of the bases' orders, and   *)
(* raises TypeError when no consistent order exists; a statement that      *)
(* raises ends the execution of the module, and importing it raises.       *)

\* BaseRepository.__init__: the two references a repository holds.
NewRepository ==
    [model |-> [tablename |-> TableName, pk |-> PkField], database |-> "SqlAlchemyDb"]

Mixins == {"RetrieveRepository", "ListRepository", "AddOneRepository",
           "AddManyRepository", "DeleteOneRepository", "UpdateRepository"}

\* The class statements in the order of the source, and their bases.
ClassStatements ==
    <<"BaseRepository", "RetrieveRepository", "ListRepository", "AddOneRepository",
      "AddManyRepository", "DeleteOneRepository", "UpdateRepository">>
ClassBases(name) ==
    IF name = "BaseRepository" THEN <<"ABC">> ELSE <<"ABC", "BaseRepository">>

\* The public operation each mixin defines.
Operation(name) ==
    CASE name = "RetrieveRepository" -> "retrieve"
      [] name = "ListRepository" -> "list_all"
      [] name = "AddOneRepository" -> "add_one"
      [] name = "AddManyRepository" -> "add_many"
      [] name = "DeleteOneRepository" -> "delete_one"
      [] name = "UpdateRepository" -> "update_one"
      [] OTHER -> "get_database"

\* What exists before the module runs: object and abc.ABC.
Builtins == [n \in {"object", "ABC"} |-> IF n = "ABC" THEN <<"ABC", "object">> ELSE <<"object">>]

InTail(h, seqs) ==
    \E i \in 1..Len(seqs) : \E k \in 2..Len(seqs[i]) : seqs[i][k] = h

\* C3 merge: repeatedly take the first head that is in no tail.
RECURSIVE merge(_)
merge(seqs) ==
    LET live == SelectSeq(seqs, LAMBDA q : q # <<>>)
        heads == {i \in 1..Len(live) : ~InTail(live[i][1], live)}
    IN  IF live = <<>> THEN [ok |-> TRUE, mro |-> <<>>]
        ELSE IF heads = {} THEN [ok |-> FALSE, mro |-> <<>>]
        ELSE LET i == CHOOSE i \in heads : \A j \in heads : i <= j
                 h == live[i][1]
                 rest == merge([k \in 1..Len(live) |->
                                   IF live[k][1] = h THEN Tail(live[k]) ELSE live[k]])
             IN  [ok |-> rest.ok, mro |-> IF rest.ok THEN <<h>> \o rest.mro ELSE <<>>]

\* type.__new__(name, bases): the new class's resolution order, or TypeError.
new_class(name, bases, defined) ==
    LET m == merge([i \in 1..(Len(bases) + 1) |->
                       IF i <= Len(bases) THEN defined[bases[i]] ELSE bases])
    IN  IF m.ok THEN [exc |-> NoExc, mro |-> <<name>> \o m.mro]
        ELSE [exc |-> Exc("TypeError",
                          <<"Cannot create a consistent method resolution order (MRO)">>),
              mro |-> <<>>]

\* Attribute lookup on a class: the first class of the order that defines it.
Resolve(mro, operation) ==
    LET hits == {i \in 1..Len(mro) : Operation(mro[i]) = operation}
    IN  IF hits = {} THEN "AttributeError"
        ELSE mro[CHOOSE i \in hits : \A j \in hits : i <= j]

NotComposed == [status |-> "none", bases |-> <<>>, exc |-> NoExc, mro |-> <<>>]
NotImported == [pc |-> 1, defined |-> Builtins, exc |-> NoExc, composed |-> NotComposed]

\* The base lists a concrete repository may give: distinct mixins, in any order.
Compositions ==
    {q \in UNION {[1..n -> Mixins] : n \in 1..MaxBases} :
        \A i, j \in DOMAIN q : i # j => q[i] # q[j]}

\* The module's next class statement runs.
ClassStatement ==
    /\ classes.composed.status = "none"
    /\ classes.exc = NoExc
    /\ classes.pc <= Len(ClassStatements)
    /\ LET name == ClassStatements[classes.pc]
           cls == new_class(name, ClassBases(name), classes.defined)
       IN  classes' = IF Raised(cls)
                      THEN [classes EXCEPT !.exc = cls.exc]
                      ELSE [classes EXCEPT !.pc = @ + 1,
                                           !.defined = (name :> cls.mro) @@ @]
    /\ UNCHANGED <<table, sessions, call, added, builder, built, repository>>

\* A concrete repository is declared: the mixins are imported from the
\* module (the import raises what the module's execution raised), then
\* the class statement with these bases runs.
Compose ==
    \E bases \in Compositions :
        /\ classes.composed.status = "none"
        /\ classes.exc # NoExc \/ classes.pc > Len(ClassStatements)
        /\ classes' =
              [classes EXCEPT !.composed =
                  IF classes.exc # NoExc
                  THEN [status |-> "done", bases |-> bases, exc |-> classes.exc, mro |-> <<>>]
                  ELSE [status |-> "done", bases |-> bases,
                        exc |-> new_class("Repository", bases, classes.defined).exc,
                        mro |-> new_class("Repository", bases, classes.defined).mro]]
        /\ UNCHANGED <<table, sessions, call, added, builder, built, repository>>

ComposeReturns ==
    /\ classes.composed.status = "done"
    /\ classes' = [classes EXCEPT !.composed = NotComposed]
    /\ UNCHANGED <<table, sessions, call, added, builder, built, repository>>

Init ==
    /\ table = {}
    /\ sessions = <<>>
    /\ call = IdleCall
    /\ added = [p \in PKs |-> <<>>]
    /\ builder = NewBuilder
    /\ built = NotBuilt
    /\ repository = NewRepository
    /\ classes = NotImported

Next ==
    \/ Retrieve
    \/ ListAll
    \/ AddOne
    \/ AddMany
    \/ UpdateOne
    \/ DeleteOne
    \/ Return
    \/ CallerEntersScope
    \/ CallerLeavesScope

Spec == Init /\ [][Next]_vars

NextBuilder ==
    \/ set_host
    \/ set_username
    \/ set_password
    \/ set_port
    \/ set_database_name
    \/ set_schema
    \/ Build
    \/ BuildReturns
    \/ NewSqlAlchemyDb
    \/ NewPostgreSqlDb
    \/ NewDbReturns

SpecBuilder == Init /\ [][NextBuilder]_vars

NextModule ==
    \/ ClassStatement
    \/ Compose
    \/ ComposeReturns

SpecModule == Init /\ [][NextModule]_vars

-----------------------------------------------------------------------------
(* Properties of the session-scoping contract *)

Scoped == call.op # "idle" /\ call.session = None
Supplied == call.op # "idle" /\ call.session # None
Events(act) == {i \in 1..Len(call.events) : call.events[i].act = act}
Bodies == {"_retrieve", "list_all", "_add_one", "_add_many", "_update_one", "_delete_one"}
BodyEvents == {i \in 1..Len(call.events) : call.events[i].act \in Bodies}

\* C1: an operation called with no session argument leaves every session it
\* opened through get_database_session closed when it returns or raises,
\* whatever the exit path; no repository-opened session stays open.
C1_ScopedSessionClosed ==
    /\ \A s \in 1..Len(sessions) : sessions[s].closer # "repository"
    /\ Scoped =>
           /\ Events("open") # {}
           /\ \A i \in Events("open") : sessions[call.events[i].s].state = "closed"

C1_Witness ==
    /\ Scoped
    /\ call.op = "retrieve"
    /\ call.exc.type = "SqlAlchemyRepositoryQueryingException"
    /\ \E i \in Events("open") : sessions[call.events[i].s].state = "closed"

\* C2: an operation called with an already-open session never closes it and
\* opens no other: the session is open when the call returns or raises, and
\* get_database_session is not invoked.
C2_SuppliedSessionKept ==
    Supplied =>
        /\ sessions[call.session].state = "open"
        /\ Events("open") = {}
        /\ Events("close") = {}
        /\ \A i \in 1..Len(call.events) : call.events[i].s = call.session

C2_Witness ==
    /\ Supplied
    /\ call.op = "update_one"
    /\ call.exc.type = "AttributeError"
    /\ sessions[call.session].state = "open"

-----------------------------------------------------------------------------
(* Properties of the operations *)

NotFound == "SqlAlchemyRepositoryQueryingException"
Starts(op) == call.op = "idle" /\ call'.op = op
Pieces(msg) == {msg[i] : i \in 1..Len(msg)}

\* C4: delete_one(pk) of a stored pk completes by removing the row and
\* committing, and a retrieve(pk) issued afterwards raises the not-found
\* error, with an explicit session and with none.
C4_DeleteThenNotFound ==
    [][(Starts("delete_one") /\ HasRow(table, call'.pk)) =>
          /\ call'.exc.type = "none"
          /\ ~HasRow(table', call'.pk)
          /\ Events("commit")' # {}
          /\ retrieve([Ctx("none") EXCEPT !.table = table'], call'.pk, call'.session).exc.type
                 = NotFound]_vars

C7_ListAllEitherSession ==
    call.op = "list_all" =>
        /\ call.exc.type \in {"none", "OperationalError"}
        /\ call.fault = "none" =>
               /\ call.exc = NoExc
               /\ call.val = ValList(RowsFrom(table, 1))
               /\ call.val = list_all(Ctx("none"), None).val

\* C8: update_one(pk, update_values) on a stored row leaves its primary
\* key as it is: the primary-key field of update_values is dropped, every
\* other field named there gets its new value, the fields not named keep
\* their stored values, the change is committed (no other row touched), and
\* the returned object is the updated row, its primary key still pk.
C8_UpdateKeepsPk ==
    [][(Starts("update_one") /\ HasRow(table, call'.pk) /\ call'.fault = "none") =>
          LET old == RowOf(table, call'.pk)[1]
              uv == call'.update_values
          IN  /\ call'.exc = NoExc
              /\ call'.val.kind = "obj"
              /\ LET new == call'.val.v[1]
                 IN  /\ new.id = call'.pk
                     /\ \A f \in Fields \ {PkField} :
                            new[f] = IF f \in DOMAIN uv THEN uv[f] ELSE old[f]
                     /\ table' = (table \ {old}) \cup {new}
              /\ Events("commit")' # {}]_vars

C8_Witness ==
    /\ call.op = "update_one"
    /\ DOMAIN call.update_values = {PkField, "name"}
    /\ call.update_values[PkField] # call.pk
    /\ call.exc = NoExc
    /\ call.val.v[1].id = call.pk
    /\ call.val.v[1].name = call.update_values["name"]
    /\ call.val.v[1] \in table
    /\ ~HasRow(table, call.update_values[PkField])

-----------------------------------------------------------------------------
(* Properties of the builder *)

BuildingException == "PostgreSqlDbBuildingException"

\* C9: build() with the password, the database name or both never set
\* fails with PostgreSqlDbBuildingException, its message listing exactly
\* the required fields that are unset, whatever the other setters were
\* given or not; no PostgreSqlDb is produced.
C9_MissingFieldsListed ==
    (built.status = "done"
        /\ (~hasattr(builder, "password") \/ ~hasattr(builder, "database_name"))) =>
        /\ built.exc.type = BuildingException
        /\ built.exc.msg =
               <<"The following fields were not set before building: ">>
               \o (IF ~hasattr(builder, "password")
                   THEN <<"_postgresql_password">> ELSE <<>>)
               \o (IF ~hasattr(builder, "database_name")
                   THEN <<"_postgresql_database_name">> ELSE <<>>)
        /\ built.db = <<>>

\* C10: every failure of build() surfaces as PostgreSqlDbBuildingException:
\* a missing field, a wrong-typed field or a failure while constructing
\* the PostgreSqlDb makes build() raise that kind and produce nothing, and
\* no other kind of error leaves build().
C10_OnlyBuildingException ==
    built.status = "done" =>
        /\ (Raised(build_url(builder)) \/ built.engine # "ok") <=> Raised(built)
        /\ Raised(built) => (built.exc.type = BuildingException /\ built.db = <<>>)
        /\ ~Raised(built) => built.db # <<>>

C10_Witness ==
    /\ built.status = "done"
    /\ hasattr(builder, "password")
    /\ builder.password.t # "str"
    /\ hasattr(builder, "database_name")
    /\ built.exc.type = BuildingException
    /\ built.db = <<>>

\* C11: constructing a Connection Context fails only with the component's
\* own construction error: whatever engine or session-factory creation
\* raises is wrapped, never surfaced raw, for SqlAlchemyDb as for
\* PostgreSqlDb; a construction that meets no failure produces the context.
C11_ConstructionErrorWrapped ==
    built.status \in {"SqlAlchemyDb", "PostgreSqlDb"} =>
        /\ built.engine = "ok" => (built.exc = NoExc /\ built.db # <<>>)
        /\ built.engine # "ok" =>
               /\ Raised(built)
               /\ built.exc.type \notin EngineOutcomes
               /\ built.db = <<>>

\* C12: add_many(objects, with_return) of objects not yet stored inserts
\* all of them in one unit of work with exactly one commit; with
\* with_return false it returns no value and refreshes nothing, with
\* with_return true it returns the collection, every object refreshed
\* after the commit; afterwards every object is retrievable by its key.
C12_AddManyOneCommit ==
    [][(Starts("add_many") /\ call'.fault = "none"
          /\ \A i \in 1..Len(call'.objects) :
                 /\ ~HasRow(table, call'.objects[i].id)
                 /\ \A j \in 1..Len(call'.objects) :
                        i # j => call'.objects[i].id # call'.objects[j].id) =>
          LET objs == call'.objects
              n == Len(objs)
              ev == call'.events
              commits == {i \in 1..Len(ev) : ev[i].act = "commit"}
              refreshes == {i \in 1..Len(ev) : ev[i].act = "refresh"}
          IN  /\ call'.exc = NoExc
              /\ Cardinality(commits) = 1
              /\ {i \in 1..Len(ev) : ev[i].act = "add_all"} # {}
              /\ table' = table \cup {Stored(objs[i]) : i \in 1..n}
              /\ \A i \in 1..n :
                     retrieve([Ctx("none") EXCEPT !.table = table'], objs[i].id, None).val
                         = ValObj(Stored(objs[i]))
              /\ IF call'.with_return
                 THEN /\ call'.val = ValList([i \in 1..n |-> Stored(objs[i])])
                      /\ Cardinality(refreshes) = n
                      /\ \A i \in refreshes : \A k \in commits : k < i
                 ELSE /\ call'.val = ValNone
                      /\ refreshes = {}]_vars

C12_Witness ==
    /\ call.op = "add_many"
    /\ call.with_return
    /\ Len(call.objects) = MaxObjects
    /\ call.exc = NoExc
    /\ Len(call.val.v) = MaxObjects
    /\ \A i \in 1..Len(call.val.v) : call.val.v[i].note = DefaultNote /\ call.val.v[i] \in table
    /\ Cardinality(Events("commit")) = 1

\* C13: update_one(pk, update_values) for a pk with no stored row fails
\* for every update_values, the empty mapping and the mapping holding only
\* the primary-key field included: the call raises, returns no value,
\* changes no stored row, and the session it opened itself is closed.
C13_UpdateMissingFails ==
    [][(Starts("update_one") /\ ~HasRow(table, call'.pk)) =>
          /\ Raised(call')
          /\ call'.val = ValNone
          /\ table' = table
          /\ call'.session = None =>
                 /\ Len(sessions') = Len(sessions) + 1
                 /\ sessions'[Len(sessions')].state = "closed"
          /\ call'.session # None => sessions' = sessions]_vars

C13_Witness ==
    /\ call.op = "update_one"
    /\ ~HasRow(table, call.pk)
    /\ table # {}
    /\ call.update_values = [f \in {PkField} |-> OtherPk]
    /\ call.session = None
    /\ call.exc.type = "UnmappedInstanceError"
    /\ sessions[Len(sessions)].state = "closed"

\* C14: build() does not modify the builder: after a build(), successful
\* or failed, every builder field (and whether it is set) is as before,
\* so building again from the same builder gives the same outcome.
C14_BuildKeepsBuilder ==
    [][(built.status = "none" /\ built'.status = "done") =>
          /\ builder' = builder
          /\ build(builder', built'.engine) = [exc |-> built'.exc, db |-> built'.db]]_vars

C14_Witness ==
    /\ built.status = "done"
    /\ Raised(built)
    /\ built.engine = "ok"
    /\ hasattr(builder, "password")
    /\ ~hasattr(builder, "database_name")
    /\ builder.host = PyNone

-----------------------------------------------------------------------------
(* Properties of the repository classes *)

\* C16: a repository is stateless beyond its model and its database: no
\* step changes these two references; and the mixins compose: every class
\* statement of the module defines its class, any list of distinct mixins
\* makes a repository class, and each composed operation is the one its
\* mixin defines, as in a repository made of that mixin alone.
C16_MixinsCompose ==
    [][/\ repository' = repository
       /\ classes'.exc = NoExc
       /\ classes'.composed.status = "done" =>
              /\ classes'.composed.exc = NoExc
              /\ \A i \in 1..Len(classes'.composed.bases) :
                     LET mixin == classes'.composed.bases[i]
                     IN  Resolve(classes'.composed.mro, Operation(mixin))
                            = Resolve(new_class("Repository", <<mixin>>,
                                                classes'.defined).mro,
                                      Operation(mixin))]_vars

\* Reading a connection URL back: its components are delimited by the
\* first ':', '@', ':' and '/' after the scheme, and a component is
\* decoded by replacing each percent escape with its character.
Find(q, ch, from) ==
    LET hits == {i \in from..Len(q) : q[i] = ch}
    IN  IF hits = {} THEN Len(q) + 1 ELSE CHOOSE i \in hits : \A j \in hits : i <= j

UrlParts(url) ==
    LET c == Find(url, ":", 2)
        a == Find(url, "@", c + 1)
        p == Find(url, ":", a + 1)
        d == Find(url, "/", p + 1)
    IN  [username |-> SubSeq(url, 2, c - 1), password |-> SubSeq(url, c + 1, a - 1),
         host |-> SubSeq(url, a + 1, p - 1), port |-> SubSeq(url, p + 1, d - 1),
         database |-> SubSeq(url, d + 1, Len(url))]

Escaped(hi, lo) ==
    CASE <<hi, lo>> = <<"4", "0">> -> "@"
      [] <<hi, lo>> = <<"2", "F">> -> "/"
      [] <<hi, lo>> = <<"3", "A">> -> ":"
      [] <<hi, lo>> = <<"2", "5">> -> "%"
      [] <<hi, lo>> = <<"2", "B">> -> "+"
      [] <<hi, lo>> = <<"2", "0">> -> " "
      [] OTHER -> "?"

RECURSIVE unquote(_)
unquote(pieces) ==
    IF pieces = <<>> THEN <<>>
    ELSE IF Head(pieces) = "%" /\ Len(pieces) >= 3
    THEN <<Escaped(pieces[2], pieces[3])>> \o unquote(SubSeq(pieces, 4, Len(pieces)))
    ELSE <<Head(pieces)>> \o unquote(Tail(pieces))

\* C17: the password round-trips through build(): whatever characters it
\* holds ('@', '/', ':', '%', a space, ...), the URL built has the
\* username, host, port and database the builder holds, its password
\* component holds no character that delimits a component, and
\* percent-decoding that component gives the password back.
C17_PasswordRoundTrip ==
    (built.status = "done" /\ ~Raised(built)) =>
        LET parts == UrlParts(built.db[1].url)
        IN  /\ parts.username = builder.username.v
            /\ parts.host = builder.host.v
            /\ parts.port = builder.port.v
            /\ parts.database = builder.database_name.v
            /\ \A i \in 1..Len(parts.password) : parts.password[i] \notin {"@", "/", ":", " "}
            /\ unquote(parts.password) = builder.password.v

\* The session actions of the finished call, in the order issued.
SessionActs ==
    LET acts == [i \in 1..Len(call.events) |-> call.events[i].act]
    IN  SelectSeq(acts, LAMBDA a : a \in {"query", "get", "all", "add", "add_all",
                                         "setattr", "commit", "refresh"})

OnlyPkRemoved ==
    /\ PkField \notin DOMAIN call.dict
    /\ DOMAIN call.dict = DOMAIN call.update_values \ {PkField}
    /\ \A f \in DOMAIN call.dict : call.dict[f] = call.update_values[f]

\* C19: update_one changes the caller's update_values mapping in place and
\* only by removing the primary-key entry: after any update_one call that
\* reaches the lookup the mapping no longer holds the primary-key field,
\* and every other entry is unchanged.
C19_MappingLosesPk ==
    (call.op = "update_one" /\ Events("get") # {}) => OnlyPkRemoved

\* C19 (amended): after an update_one call whose lookup returned (a row or
\* nothing), whether the call then returns or raises, the caller's mapping
\* has lost the primary-key entry and nothing else; after a call whose
\* lookup raised, the mapping is as the caller passed it.
C19_MappingLosesPkAfterLookup ==
    call.op = "update_one" =>
        /\ Events("get") # {}
        /\ IF call.fault = "query"
           THEN call.exc.type = "OperationalError" /\ call.dict = call.update_values
           ELSE OnlyPkRemoved

C19_Witness ==
    /\ call.op = "update_one"
    /\ call.fault = "none"
    /\ call.exc.type = "AttributeError"
    /\ DOMAIN call.update_values = {PkField, "name"}
    /\ DOMAIN call.dict = {"name"}

\* C20: build() raises the 'fields were not set before building' error
\* only when the password or the database name was never set: with both
\* set, to any value and whatever the other fields hold, a failing build()
\* reports the underlying cause, never the missing-fields error (with an
\* empty list of fields).
C20_MissingFieldsOnlyWhenUnset ==
    (built.status = "done" /\ Raised(built)
        /\ hasattr(builder, "password") /\ hasattr(builder, "database_name")) =>
        /\ built.exc.type = BuildingException
        /\ Head(built.exc.msg) # "The following fields were not set before building: "

====
